---- MODULE Spec2Model ----
(***************************************************************************)
(* A model of mjkit's tile algebra (src/tile.rs), group and wait           *)
(* classifier (src/hand.rs) and yaku decision functions (src/hand/yaku.rs).*)
(*                                                                         *)
(* Rust values are modelled structurally:                                  *)
(*   Option<T>     None = <<"None">>,  Some(x) = <<"Some", x>>             *)
(*   Val(u8)       the one-field tuple <<n>>                               *)
(*   Tile          <<"Suited", suit, val>>, <<"Wind", d>>, <<"Dragon", d>> *)
(*   a panic       <<"Panic">>, a returned value x  <<"Ok", x>>            *)
(***************************************************************************)
EXTENDS Integers, Sequences, FiniteSets, TLC

VARIABLES
    \* Val construction (SpecVal)
    ctor, arg, vres, got, built,
    \* repeated dora indication (SpecTile)
    t0, cur, prev, napps, seen,
    \* traversals of Tile::all() (SpecIter)
    iters, out, lastRet, nones,
    \* one Group and the last query made of it (SpecGroup)
    grp, gres,
    \* one CompleteHand, one WinContext, the yaku evaluated so far (SpecYaku)
    hand, ctx, yres

valVars == <<ctor, arg, vres, got, built>>
tileVars == <<t0, cur, prev, napps, seen>>
iterVars == <<iters, out, lastRet, nones>>
groupVars == <<grp, gres>>
yakuVars == <<hand, ctx, yres>>
vars == <<valVars, tileVars, iterVars, groupVars, yakuVars>>

---------------------------------------------------------------------------
\* Bounds of the model.

\* Applications of indicated_dora followed from one starting tile.
MaxApps == 9
\* Independent traversals of Tile::all() alive at once.
NumTraversals == 2
\* Tiles one traversal may yield before the caller stops asking.
MaxYield == 40
\* Calls of next() a caller makes after the first None.
MaxNones == 2

\* The largest u8, the argument type of Val::new.
U8Max == 255

---------------------------------------------------------------------------
\* Option and panics.

None == <<"None">>
Some(x) == <<"Some", x>>
IsSome(o) == o[1] = "Some"
Unwrap(o) == o[2]

Panic == <<"Panic">>
Ok(x) == <<"Ok", x>>
IsOk(r) == r[1] = "Ok"

---------------------------------------------------------------------------
\* tile.rs: Suit, Direction, Dragon, Val, Tile.

Suit == <<"Manzu", "Souzu", "Pinzu">>
Direction == <<"East", "South", "West", "North">>
Dragon == <<"White", "Green", "Red">>

\* The position of a variant in its enum: what the derived Ord compares.
Discr(enum, x) == CHOOSE i \in 1..Len(enum) : enum[i] = x

Range(s) == {s[i] : i \in 1..Len(s)}

Direction_next(d) ==
    CASE d = "East" -> "South"
      [] d = "South" -> "West"
      [] d = "West" -> "North"
      [] d = "North" -> "East"

Dragon_next(d) ==
    CASE d = "White" -> "Green"
      [] d = "Green" -> "Red"
      [] d = "Red" -> "White"

Val(n) == <<n>>

Val_new_clamping(n) ==
    IF n < 1 THEN Ok(Val(1)) ELSE IF n > 9 THEN Ok(Val(9)) ELSE Ok(Val(n))

Val_new(n) ==
    IF 1 <= n /\ n <= 9 THEN Ok(Val(n)) ELSE Panic

\* #[derive(Default)] on struct Val(u8): the field's default, 0.
Val_default == Val(0)

Val_val(v) == v[1]

Suited(s, v) == <<"Suited", s, v>>
Wind(d) == <<"Wind", d>>
DragonTile(d) == <<"Dragon", d>>

TileKind == <<"Suited", "Wind", "Dragon">>

\* #[derive(PartialOrd, Ord)] on Tile: the variant first, then its fields in
\* order.
Tile_lt(a, b) ==
    IF a[1] # b[1] THEN Discr(TileKind, a[1]) < Discr(TileKind, b[1])
    ELSE CASE a[1] = "Suited" ->
                IF a[2] # b[2] THEN Discr(Suit, a[2]) < Discr(Suit, b[2])
                ELSE Val_val(a[3]) < Val_val(b[3])
           [] a[1] = "Wind" -> Discr(Direction, a[2]) < Discr(Direction, b[2])
           [] a[1] = "Dragon" -> Discr(Dragon, a[2]) < Discr(Dragon, b[2])

indicated_dora_no_wrap(t) ==
    CASE t[1] = "Suited" -> Suited(t[2], Val(Val_val(t[3]) + 1))
      [] t[1] = "Wind" -> Wind(Direction_next(t[2]))
      [] t[1] = "Dragon" -> DragonTile(Dragon_next(t[2]))

\* Val(n + 1) is a u8 addition; no reachable Val exceeds 9, so it never
\* overflows.
indicated_dora(t) ==
    CASE t[1] = "Suited" /\ t[3] = Val(9) -> Suited(t[2], Val(1))
      [] t[1] = "Suited" /\ t[3] # Val(9) -> Suited(t[2], Val(Val_val(t[3]) + 1))
      [] t[1] = "Wind" -> Wind(Direction_next(t[2]))
      [] t[1] = "Dragon" -> DragonTile(Dragon_next(t[2]))

Tile_val(t) == IF t[1] = "Suited" THEN Some(t[3]) ELSE None

\* Tile::all(): a fresh AllTiles.
Tile_all == [next |-> Some(Suited("Manzu", Val(1)))]

AllTiles_advance_wrapping(val) ==
    CASE val = Suited("Manzu", Val(9)) -> Some(Suited("Souzu", Val(1)))
      [] val = Suited("Souzu", Val(9)) -> Some(Suited("Pinzu", Val(9)))
      [] val = Suited("Pinzu", Val(9)) -> Some(Wind("East"))
      [] val = Wind("North") -> Some(DragonTile("White"))
      [] OTHER -> Some(indicated_dora(val))

\* The match in AllTiles::next that computes the new `next` field.
AllTiles_advance(val) ==
    CASE val = Suited("Manzu", Val(9)) -> Some(Suited("Souzu", Val(1)))
      [] val = Suited("Souzu", Val(9)) -> Some(Suited("Pinzu", Val(9)))
      [] val = Suited("Pinzu", Val(9)) -> Some(Wind("East"))
      [] val = Wind("North") -> Some(DragonTile("White"))
      [] val = DragonTile("Red") -> None
      [] OTHER -> Some(indicated_dora(val))

\* AllTiles::next(&mut self): the iterator after the call and what it returned.
AllTiles_next(self) ==
    LET cur_ == self.next
    IN  [self |-> IF IsSome(cur_) THEN [next |-> AllTiles_advance(Unwrap(cur_))]
                  ELSE self,
         ret |-> cur_]

---------------------------------------------------------------------------
\* hand.rs: Opponent, Location, WinContext, GroupType, Wait, Group.

Opponent == <<"Right", "Across", "Left">>

LiveWall == <<"LiveWall">>
DeadWall == <<"DeadWall">>
Discard(o) == <<"Discard", o>>
Kan(o) == <<"Kan", o>>

\* A Group is a record of its four fields: tiles, off, added, agari.
Group_is_open(g) == g.off = None

Group_has_agari(g) == g.agari

Group_ty(g) ==
    IF Len(g.tiles) = 4 THEN "Quad"
    ELSE IF g.tiles[1] = g.tiles[2] THEN "Triplet"
    ELSE "Sequence"

\* Vec::sort() under the derived Ord.
Sorted(tiles) == SortSeq(tiles, Tile_lt)

\* Iterator::position: the 0-based index of the first element equal to x.
Position(s, x) ==
    IF \E i \in 1..Len(s) : s[i] = x
    THEN Some((CHOOSE i \in 1..Len(s) : s[i] = x /\ \A j \in 1..(i - 1) : s[j] # x) - 1)
    ELSE None

\* Iterator::min under the derived Ord.
MinTile(tiles) == Sorted(tiles)[1]

Group_first_tile(g) ==
    IF Group_ty(g) = "Sequence" THEN MinTile(g.tiles) ELSE g.tiles[1]

Group_wait_conventional(g) ==
    IF ~g.agari THEN Ok(None)
    ELSE IF Group_ty(g) # "Sequence" THEN Ok(Some("Shanpon"))
    ELSE LET agari_ == g.tiles[3]
             val_ == Val_val(Unwrap(Tile_val(agari_)))
             pos_ == Unwrap(Position(Sorted(g.tiles), agari_))
         IN  IF pos_ = 1 THEN Ok(Some("Kanchan"))
             ELSE IF (pos_ = 0 /\ val_ = 7) \/ (pos_ = 2 /\ val_ = 3)
             THEN Ok(Some("Penchan"))
             ELSE Ok(Some("Ryanmen"))

Group_wait_ignoring_agari(g) ==
    IF Group_ty(g) # "Sequence" THEN Ok(Some("Shanpon"))
    ELSE LET agari_ == g.tiles[3]
             val_ == Val_val(Unwrap(Tile_val(agari_)))
             pos_ == Unwrap(Position(Sorted(g.tiles), agari_))
         IN  IF pos_ = 2 THEN Ok(Some("Kanchan"))
             ELSE IF (pos_ = 1 /\ val_ = 7) \/ (pos_ = 3 /\ val_ = 3)
             THEN Ok(Some("Penchan"))
             ELSE Ok(Some("Ryanmen"))

\* Group::wait. The two unwrap() calls panic on None.
Group_wait(g) ==
    IF ~g.agari THEN Ok(None)
    ELSE IF Group_ty(g) # "Sequence" THEN Ok(Some("Shanpon"))
    ELSE LET agari_ == g.tiles[3]
             v_ == Tile_val(agari_)
             p_ == Position(Sorted(g.tiles), agari_)
         IN  IF ~IsSome(v_) \/ ~IsSome(p_) THEN Panic
             ELSE LET val_ == Val_val(Unwrap(v_))
                      pos_ == Unwrap(p_)
                  IN  IF pos_ = 2 THEN Ok(Some("Kanchan"))
                      ELSE IF (pos_ = 1 /\ val_ = 7) \/ (pos_ = 3 /\ val_ = 3)
                      THEN Ok(Some("Penchan"))
                      ELSE Ok(Some("Ryanmen"))

---------------------------------------------------------------------------
\* hand.rs: CompleteHand; hand/yaku.rs: the in_hand functions of the two yaku.
\* A CompleteHand is <<"Kokushi", tiles>>, <<"SevenPairs", pairs>> or
\* <<"Standard", groups, pair>>; a WinContext is a record of its eight fields.

Kokushi(tiles) == <<"Kokushi", tiles>>
SevenPairs(pairs) == <<"SevenPairs", pairs>>
Standard(groups, pair) == <<"Standard", groups, pair>>

\* tiles.iter().filter(|&&t| t == x).count()
RECURSIVE CountEq(_, _)
CountEq(tiles, x) ==
    IF tiles = <<>> THEN 0
    ELSE (IF Head(tiles) = x THEN 1 ELSE 0) + CountEq(Tail(tiles), x)

KOKUSHI_in_hand(h, c) ==
    IF h[1] = "Kokushi" THEN TRUE ELSE FALSE

KOKUSHI_13_in_hand_single(h, c) ==
    IF h[1] = "Kokushi" THEN CountEq(h[2], c.agari) = 1 ELSE FALSE

KOKUSHI_13_in_hand(h, c) ==
    IF h[1] = "Kokushi" THEN CountEq(h[2], c.agari) = 2 ELSE FALSE

---------------------------------------------------------------------------
\* The values callers can reach.

\* Every Val the public constructors hand out.
ConstructibleVals ==
    {Val_default} \cup {Unwrap(Val_new(n)) : n \in {m \in 0..U8Max : IsOk(Val_new(m))}}

\* Every Tile a caller can build from public constructors.
ConstructibleTiles ==
    {Suited(s, v) : s \in Range(Suit), v \in ConstructibleVals}
        \cup {Wind(d) : d \in Range(Direction)}
        \cup {DragonTile(d) : d \in Range(Dragon)}

---------------------------------------------------------------------------
\* Each specification below drives one part of the crate; the variables of
\* the other parts rest at these values.

IdleVal == ctor = "none" /\ arg = 0 /\ vres = None /\ got = None /\ built = None
IdleTile ==
    t0 = None /\ cur = None /\ prev = None /\ napps = 0 /\ seen = {}
IdleIter == iters = <<>> /\ out = <<>> /\ lastRet = <<>> /\ nones = <<>>
IdleGroup == grp = None /\ gres = None
IdleYaku == hand = None /\ ctx = None /\ yres = <<>>

---------------------------------------------------------------------------
\* SpecVal: a caller constructs one Val, reads it back and builds a tile.

InitVal ==
    /\ ctor = "none"
    /\ arg \in 0..U8Max
    /\ vres = None
    /\ got = None
    /\ built = None
    /\ IdleTile /\ IdleIter /\ IdleGroup /\ IdleYaku

\* let v = Val::new(arg);
CallValNew ==
    /\ ctor = "none"
    /\ ctor' = "new"
    /\ vres' = Val_new(arg)
    /\ UNCHANGED <<arg, got, built, tileVars, iterVars, groupVars, yakuVars>>

\* let v = Val::default();
CallValDefault ==
    /\ ctor = "none"
    /\ ctor' = "default"
    /\ vres' = Ok(Val_default)
    /\ UNCHANGED <<arg, got, built, tileVars, iterVars, groupVars, yakuVars>>

\* v.val()
CallValVal ==
    /\ IsOk(vres)
    /\ got = None
    /\ got' = Some(Val_val(Unwrap(vres)))
    /\ UNCHANGED <<ctor, arg, vres, built, tileVars, iterVars, groupVars, yakuVars>>

\* Tile::Suited(s, v)
BuildSuited(s) ==
    /\ IsOk(vres)
    /\ built = None
    /\ built' = Some(Suited(s, Unwrap(vres)))
    /\ UNCHANGED <<ctor, arg, vres, got, tileVars, iterVars, groupVars, yakuVars>>

NextVal ==
    \/ CallValNew
    \/ CallValDefault
    \/ CallValVal
    \/ \E s \in Range(Suit) : BuildSuited(s)

SpecVal == InitVal /\ [][NextVal]_vars

---------------------------------------------------------------------------
\* SpecTile: a caller follows indicated_dora from one starting tile.

InitTile ==
    /\ t0 \in ConstructibleTiles
    /\ cur = t0
    /\ prev = None
    /\ napps = 0
    /\ seen = {t0}
    /\ IdleVal /\ IdleIter /\ IdleGroup /\ IdleYaku

\* cur = cur.indicated_dora();
ApplyDora ==
    /\ napps < MaxApps
    /\ prev' = Some(cur)
    /\ cur' = indicated_dora(cur)
    /\ napps' = napps + 1
    /\ seen' = seen \cup {cur'}
    /\ UNCHANGED <<t0, valVars, iterVars, groupVars, yakuVars>>

NextTile == ApplyDora

SpecTile == InitTile /\ [][NextTile]_vars

---------------------------------------------------------------------------
\* SpecIter: callers hold traversals of Tile::all() and pull tiles from them.
\* out[i] collects what traversal i returned, lastRet[i] is its latest return
\* and nones[i] counts the calls that returned None.

Traversals == 1..NumTraversals

InitIter ==
    /\ iters = [i \in Traversals |-> Tile_all]
    /\ out = [i \in Traversals |-> <<>>]
    /\ lastRet = [i \in Traversals |-> None]
    /\ nones = [i \in Traversals |-> 0]
    /\ IdleVal /\ IdleTile /\ IdleGroup /\ IdleYaku

\* let it = Tile::all();  (traversal i starts afresh)
CallAll(i) ==
    /\ iters' = [iters EXCEPT ![i] = Tile_all]
    /\ out' = [out EXCEPT ![i] = <<>>]
    /\ lastRet' = [lastRet EXCEPT ![i] = None]
    /\ nones' = [nones EXCEPT ![i] = 0]
    /\ UNCHANGED <<valVars, tileVars, groupVars, yakuVars>>

\* it.next()
CallNext(i) ==
    /\ Len(out[i]) < MaxYield
    /\ nones[i] < MaxNones
    /\ LET r == AllTiles_next(iters[i])
       IN  /\ iters' = [iters EXCEPT ![i] = r.self]
           /\ lastRet' = [lastRet EXCEPT ![i] = Some(r.ret)]
           /\ out' = [out EXCEPT ![i] =
                        IF IsSome(r.ret) THEN Append(@, Unwrap(r.ret)) ELSE @]
           /\ nones' = [nones EXCEPT ![i] = IF IsSome(r.ret) THEN @ ELSE @ + 1]
    /\ UNCHANGED <<valVars, tileVars, groupVars, yakuVars>>

NextIter ==
    \/ \E i \in Traversals : CallAll(i)
    \/ \E i \in Traversals : CallNext(i)

SpecIter == InitIter /\ [][NextIter]_vars

---------------------------------------------------------------------------
\* SpecGroup: one well-formed Group, as the hand decomposer hands it over,
\* and the queries a consumer makes of it.  gres holds the latest query and
\* its result.

\* The 34 tiles of the game.
GameTiles ==
    {Suited(s, Val(n)) : s \in Range(Suit), n \in 1..9}
        \cup {Wind(d) : d \in Range(Direction)}
        \cup {DragonTile(d) : d \in Range(Dragon)}

\* Three consecutive tiles of one suit, in any stored order.
RunTiles ==
    {<<Suited(s, Val(a)), Suited(s, Val(b)), Suited(s, Val(c))>> :
        s \in Range(Suit),
        <<a, b, c>> \in {p \in (1..9) \X (1..9) \X (1..9) :
                            \E low \in 1..7 : {p[1], p[2], p[3]} = {low, low + 1, low + 2}}}
TripletTiles == {<<t, t, t>> : t \in GameTiles}
QuadTiles == {<<t, t, t, t>> : t \in GameTiles}

OptOpponent == {None} \cup {Some(o) : o \in Range(Opponent)}

\* The Group invariants of hand.rs: only a quad built on a called triplet is
\* `added`, and a group is never both `added` and `agari`.
Groups ==
    {g \in [tiles : RunTiles \cup TripletTiles \cup QuadTiles,
            off : OptOpponent, added : BOOLEAN, agari : BOOLEAN] :
        g.added => (Len(g.tiles) = 4 /\ g.off # None /\ ~g.agari)}

InitGroup ==
    /\ grp \in Groups
    /\ gres = None
    /\ IdleVal /\ IdleTile /\ IdleIter /\ IdleYaku

CallIsOpen ==
    /\ gres' = <<"is_open", Group_is_open(grp)>>
    /\ UNCHANGED <<grp, valVars, tileVars, iterVars, yakuVars>>

CallHasAgari ==
    /\ gres' = <<"has_agari", Group_has_agari(grp)>>
    /\ UNCHANGED <<grp, valVars, tileVars, iterVars, yakuVars>>

CallTy ==
    /\ gres' = <<"ty", Group_ty(grp)>>
    /\ UNCHANGED <<grp, valVars, tileVars, iterVars, yakuVars>>

CallFirstTile ==
    /\ gres' = <<"first_tile", Group_first_tile(grp)>>
    /\ UNCHANGED <<grp, valVars, tileVars, iterVars, yakuVars>>

CallWait ==
    /\ gres' = <<"wait", Group_wait(grp)>>
    /\ UNCHANGED <<grp, valVars, tileVars, iterVars, yakuVars>>

NextGroup ==
    \/ CallIsOpen
    \/ CallHasAgari
    \/ CallTy
    \/ CallFirstTile
    \/ CallWait

SpecGroup == InitGroup /\ [][NextGroup]_vars

---------------------------------------------------------------------------
\* SpecYaku: one CompleteHand and one WinContext, and the evaluation of the
\* two registered yaku against them, in either order.  yres[y] is None until
\* yaku y has been evaluated.

\* The thirteen terminal and honour kinds.
OrphanKinds ==
    << Suited("Manzu", Val(1)), Suited("Manzu", Val(9)),
       Suited("Souzu", Val(1)), Suited("Souzu", Val(9)),
       Suited("Pinzu", Val(1)), Suited("Pinzu", Val(9)),
       Wind("East"), Wind("South"), Wind("West"), Wind("North"),
       DragonTile("White"), DragonTile("Green"), DragonTile("Red") >>

\* Each kind once plus one duplicate, the duplicate stored last or beside its
\* twin.
KokushiHands ==
    {Kokushi(OrphanKinds \o <<OrphanKinds[d]>>) : d \in 1..13}
        \cup {Kokushi(SubSeq(OrphanKinds, 1, d) \o <<OrphanKinds[d]>>
                        \o SubSeq(OrphanKinds, d + 1, 13)) : d \in 1..13}

SevenPairsHands ==
    { SevenPairs([k \in 1..7 |-> <<OrphanKinds[k], OrphanKinds[k]>>]),
      SevenPairs([k \in 1..7 |-> <<OrphanKinds[k + 6], OrphanKinds[k + 6]>>]),
      SevenPairs([k \in 1..7 |-> <<Suited("Souzu", Val(k)), Suited("Souzu", Val(k))>>]) }

ClosedGroup(tiles, won) == [tiles |-> tiles, off |-> None, added |-> FALSE, agari |-> won]

StandardHands ==
    { Standard(<< ClosedGroup(<<Suited("Manzu", Val(1)), Suited("Manzu", Val(2)), Suited("Manzu", Val(3))>>, FALSE),
                  ClosedGroup(<<Suited("Manzu", Val(7)), Suited("Manzu", Val(8)), Suited("Manzu", Val(9))>>, FALSE),
                  ClosedGroup(<<Wind("East"), Wind("East"), Wind("East")>>, FALSE),
                  ClosedGroup(<<DragonTile("Red"), DragonTile("Red"), DragonTile("Red")>>, won) >>,
               <<Suited("Pinzu", Val(9)), Suited("Pinzu", Val(9))>>) : won \in BOOLEAN }

CompleteHands == KokushiHands \cup SevenPairsHands \cup StandardHands

WinContexts ==
    [agari : GameTiles,
     source : {LiveWall, Discard("Right")},
     riichi : BOOLEAN,
     first_turn : {FALSE},
     wall_empty : {FALSE},
     round : {"East"},
     seat : {"East", "South"},
     honba : {0}]

YakuNames == {"KOKUSHI", "KOKUSHI_13"}

InitYaku ==
    /\ hand \in CompleteHands
    /\ ctx \in WinContexts
    /\ yres = [y \in YakuNames |-> None]
    /\ IdleVal /\ IdleTile /\ IdleIter /\ IdleGroup

\* (KOKUSHI.in_hand)(&hand, &ctx)
EvalKokushi ==
    /\ yres' = [yres EXCEPT !["KOKUSHI"] = Some(KOKUSHI_in_hand(hand, ctx))]
    /\ UNCHANGED <<hand, ctx, valVars, tileVars, iterVars, groupVars>>

\* (KOKUSHI_13.in_hand)(&hand, &ctx)
EvalKokushi13 ==
    /\ yres' = [yres EXCEPT !["KOKUSHI_13"] = Some(KOKUSHI_13_in_hand(hand, ctx))]
    /\ UNCHANGED <<hand, ctx, valVars, tileVars, iterVars, groupVars>>

NextYaku ==
    \/ EvalKokushi
    \/ EvalKokushi13

SpecYaku == InitYaku /\ [][NextYaku]_vars

---------------------------------------------------------------------------
\* The properties checked, and the vocabulary they are stated in: the 27 real
\* suited kinds, the winds and the dragons, written out.

RealSuited == {<<"Suited", s, <<n>>>> : s \in {"Manzu", "Souzu", "Pinzu"}, n \in 1..9}
Winds == {<<"Wind", d>> : d \in {"East", "South", "West", "North"}}
Dragons == {<<"Dragon", d>> : d \in {"White", "Green", "Red"}}

---------------------------------------------------------------------------
\* C8: Val::new(n) returns a Val whose val() is n when 1 <= n <= 9, and
\* otherwise panics without producing any Val: out-of-range input is never
\* clamped or wrapped into range.
C8_ValNewRoundTripOrPanic ==
    ctor = "new" =>
        IF 1 <= arg /\ arg <= 9
        THEN /\ vres = <<"Ok", <<arg>>>>
             /\ (got # None => got = <<"Some", arg>>)
        ELSE /\ vres = <<"Panic">>
             /\ got = None
             /\ built = None

\* Val::new(10) has panicked.
C8_Witness == ctor = "new" /\ arg = 10 /\ vres = <<"Panic">>

\* C10: every Val obtained from Val::new or Val::default holds a number in
\* 1..9, so every Suited tile built from one is one of the 27 real kinds.
C10_EveryValIsReal ==
    /\ (vres # None /\ vres # <<"Panic">>) => vres[2][1] \in 1..9
    /\ built # None => built[2] \in RealSuited

\* C7: indicated_dora maps a suited v < 9 to v + 1 of the same suit and a
\* suited 9 to 1 of the same suit; from a wind it visits all 4 winds and is
\* back at the start after exactly 4 applications, from a dragon all 3
\* dragons and back after exactly 3.
C7_DoraSuccessorCycles ==
    /\ (napps > 0 /\ prev[2][1] = "Suited") =>
          /\ cur[1] = "Suited"
          /\ cur[2] = prev[2][2]
          /\ cur[3][1] = IF prev[2][3][1] < 9 THEN prev[2][3][1] + 1 ELSE 1
    /\ (t0 \in Winds) =>
          /\ cur \in Winds
          /\ (cur = t0) = (napps % 4 = 0)
          /\ (napps >= 3) => seen = Winds
    /\ (t0 \in Dragons) =>
          /\ cur \in Dragons
          /\ (cur = t0) = (napps % 3 = 0)
          /\ (napps >= 2) => seen = Dragons

\* Four applications from the East wind are back at the East wind.
C7_Witness == t0 = <<"Wind", "East">> /\ napps = 4 /\ cur = t0 /\ seen = Winds

\* The canonical order of the 34 kinds: Manzu 1-9, Souzu 1-9, Pinzu 1-9,
\* East South West North, White Green Red.
CanonicalOrder ==
    [k \in 1..9 |-> <<"Suited", "Manzu", <<k>>>>]
        \o [k \in 1..9 |-> <<"Suited", "Souzu", <<k>>>>]
        \o [k \in 1..9 |-> <<"Suited", "Pinzu", <<k>>>>]
        \o << <<"Wind", "East">>, <<"Wind", "South">>, <<"Wind", "West">>,
              <<"Wind", "North">>, <<"Dragon", "White">>, <<"Dragon", "Green">>,
              <<"Dragon", "Red">> >>

\* C4: a traversal of Tile::all() yields the 34 kinds exactly once each, in
\* the canonical order, and two independent traversals agree element by
\* element.
C4_AllYieldsThe34Kinds ==
    /\ \A i \in Traversals :
          /\ Len(out[i]) <= 34
          /\ out[i] = SubSeq(CanonicalOrder, 1, Len(out[i]))
          /\ \A j, k \in 1..Len(out[i]) : j # k => out[i][j] # out[i][k]
          /\ nones[i] > 0 => Len(out[i]) = 34
    /\ \A i, j \in Traversals :
          \A k \in 1..Len(out[i]) : k <= Len(out[j]) => out[i][k] = out[j][k]

\* C9: a traversal of Tile::all() is finite and strictly ascending in the
\* derived Tile order, the last tile it returns is the Red Dragon, and every
\* call after that returns None.
C9_TraversalAscendsAndEnds ==
    \A i \in Traversals :
        /\ Len(out[i]) <= 34
        /\ \A k \in 1..(Len(out[i]) - 1) : Tile_lt(out[i][k], out[i][k + 1])
        /\ nones[i] > 0 =>
              /\ lastRet[i] = <<"Some", <<"None">>>>
              /\ iters[i].next = <<"None">>
              /\ out[i] # <<>>
              /\ out[i][Len(out[i])] = <<"Dragon", "Red">>

\* A traversal has returned the Red Dragon and then None twice.
C9_Witness ==
    \E i \in Traversals :
        /\ nones[i] = 2
        /\ out[i][Len(out[i])] = <<"Dragon", "Red">>
        /\ Len(out[i]) > 20

\* Three tiles of one suit whose values are consecutive, in any order.
IsRun(tiles) ==
    /\ Len(tiles) = 3
    /\ \A k \in 1..3 : tiles[k][1] = "Suited" /\ tiles[k][2] = tiles[1][2]
    /\ \E low \in 1..7 : {tiles[k][3][1] : k \in 1..3} = {low, low + 1, low + 2}

\* How many tiles of a run are smaller than its last-stored (winning) tile.
RankOfWinningTile(tiles) ==
    Cardinality({k \in 1..3 : tiles[k][3][1] < tiles[3][3][1]})

\* C1: for an agari sequence group, wait() is Kanchan when the winning tile
\* (index 2) is the largest of the three, Penchan when it is the middle one
\* and has value 7, and Ryanmen otherwise; never Shanpon, Tanki or None.
C1_SequenceWaitTable ==
    (gres[1] = "wait" /\ grp.agari /\ IsRun(grp.tiles)) =>
        gres[2] = <<"Ok", <<"Some",
            IF RankOfWinningTile(grp.tiles) = 2 THEN "Kanchan"
            ELSE IF RankOfWinningTile(grp.tiles) = 1 /\ grp.tiles[3][3][1] = 7
            THEN "Penchan"
            ELSE "Ryanmen">>>>

\* 6-7-8 won on the 7 has been classified Penchan.
C1_Witness ==
    /\ grp.agari
    /\ grp.tiles = << <<"Suited", "Souzu", <<8>>>>, <<"Suited", "Souzu", <<6>>>>,
                      <<"Suited", "Souzu", <<7>>>> >>
    /\ gres = <<"wait", <<"Ok", <<"Some", "Penchan">>>>>>

\* C2: for an agari sequence group, wait() is Penchan when the group is 7-8-9
\* won on the 7 and when the group is 1-2-3 won on the 3.
C2_EdgeWaitsArePenchan ==
    (/\ gres[1] = "wait" /\ grp.agari /\ IsRun(grp.tiles)
     /\ LET vals == {grp.tiles[k][3][1] : k \in 1..3}
            won == grp.tiles[3][3][1]
        IN  (vals = {7, 8, 9} /\ won = 7) \/ (vals = {1, 2, 3} /\ won = 3))
        => gres[2] = <<"Ok", <<"Some", "Penchan">>>>

\* C3: is_open() is true exactly when a tile of the group came from another
\* player, that is, when `off` is set.
C3_OpenIffCalled ==
    gres[1] = "is_open" => (gres[2] = (grp.off # <<"None">>))

\* Three or four copies of one tile: a triplet or a quad.
IsSet(tiles) ==
    /\ Len(tiles) \in {3, 4}
    /\ \A k \in 1..Len(tiles) : tiles[k] = tiles[1]

\* C5: wait() is None for every group whose agari flag is unset, and Shanpon
\* for every agari group that is a triplet or a quad.
C5_NoneUnlessAgariShanponForSets ==
    gres[1] = "wait" =>
        /\ ~grp.agari => gres[2] = <<"Ok", <<"None">>>>
        /\ (grp.agari /\ IsSet(grp.tiles)) =>
              gres[2] = <<"Ok", <<"Some", "Shanpon">>>>

\* wait() of an agari quad has returned Shanpon.
C5_Witness ==
    /\ grp.agari /\ Len(grp.tiles) = 4
    /\ gres = <<"wait", <<"Ok", <<"Some", "Shanpon">>>>>>

\* C6: Thirteen Orphans holds iff the hand is Kokushi, whatever the context;
\* Thirteen-Sided holds iff the hand is Kokushi and exactly two of its
\* fourteen tiles equal the winning tile.
C6_KokushiYaku ==
    /\ yres["KOKUSHI"] # <<"None">> =>
          yres["KOKUSHI"] = <<"Some", hand[1] = "Kokushi">>
    /\ yres["KOKUSHI_13"] # <<"None">> =>
          yres["KOKUSHI_13"] =
              <<"Some", /\ hand[1] = "Kokushi"
                        /\ Cardinality({k \in 1..14 : hand[2][k] = ctx.agari}) = 2>>

\* A Kokushi hand won on its duplicated Red Dragon satisfies both yaku.
C6_Witness ==
    /\ hand[1] = "Kokushi"
    /\ ctx.agari = <<"Dragon", "Red">>
    /\ hand[2][14] = <<"Dragon", "Red">>
    /\ yres["KOKUSHI"] = <<"Some", TRUE>>
    /\ yres["KOKUSHI_13"] = <<"Some", TRUE>>

====
